---- MODULE Spec2Model ----
(***************************************************************************)
(* Model of wildstar_addon_updater.py: the Search worker (AddonSearch),    *)
(* the Install worker (Downloader), the three queues (MultiQueue), the     *)
(* configuration store (Config) and the polling caller                     *)
(* (DownloaderInterface).                                                  *)
(*                                                                         *)
(* Strings are sequences of one-character strings, so that the regular     *)
(* expressions of the source can be computed.  Python's None is the empty  *)
(* sequence <<>> and a present value v is <<v>>.                           *)
(***************************************************************************)
EXTENDS Integers, Sequences, FiniteSets, TLC

\* ------------------------------------------------------------------ bounds
MaxAddons == 2      \* folder names listed, over all the runs together
MaxRuns == 2        \* how many times the Update button is pressed
MaxDate == 1        \* largest epoch value the catalog shows
MaxFinds == 3       \* longest list of names given to a resolver on its own
MaxDirChanges == 1  \* how many times the Change Addon Folder button is pressed

\* -------------------------------------------------------------- characters
Upper == {"S", "C"}
Lower == {"a", "o"}
Digit == {"0", "1", "2", "3", "4", "5", "6", "7", "8", "9"}
White == {" "}

IsAlnum(c) == c \in Upper \cup Lower \cup Digit

\* the class [a-z0-9] of the camel-case pattern
IsLowerOrDigit(c) == c \in Lower \cup Digit

None == << >>

Some(v) == << v >>

\* ------------------------------------------------------------ string tools
RECURSIVE LStrip(_)
LStrip(s) ==
    IF s # << >> /\ Head(s) \in White THEN LStrip(Tail(s)) ELSE s

RECURSIVE RStrip(_)
RStrip(s) ==
    IF s # << >> /\ s[Len(s)] \in White
    THEN RStrip(SubSeq(s, 1, Len(s) - 1))
    ELSE s

\* str.strip()
Strip(s) == RStrip(LStrip(s))

\* re.sub(r'[^a-zA-Z0-9]', '', name.strip())
convert_addon_name(name) == SelectSeq(Strip(name), IsAlnum)

\* end of the greedy run [a-z0-9]+ that starts at position j
RECURSIVE RunEnd(_, _)
RunEnd(s, j) ==
    IF j < Len(s) /\ IsLowerOrDigit(s[j + 1]) THEN RunEnd(s, j + 1) ELSE j

\* re.findall(r'[A-Z]{1}[a-z0-9]+', s), scanning from position i
RECURSIVE FindAllFrom(_, _)
FindAllFrom(s, i) ==
    IF i >= Len(s) THEN << >>
    ELSE IF s[i] \in Upper /\ IsLowerOrDigit(s[i + 1])
         THEN << SubSeq(s, i, RunEnd(s, i + 1)) >>
                  \o FindAllFrom(s, RunEnd(s, i + 1) + 1)
         ELSE FindAllFrom(s, i + 1)

FindAll(s) == FindAllFrom(s, 1)

\* sep.join(parts)
RECURSIVE Join(_, _)
Join(parts, sep) ==
    IF parts = << >> THEN << >>
    ELSE IF Len(parts) = 1 THEN parts[1]
    ELSE parts[1] \o sep \o Join(Tail(parts), sep)

\* ' '.join(re.findall(...))
split_by_camel_case(addon_name) == Join(FindAll(addon_name), << " " >>)

\* ''.join(re.findall(...)[:-1])
remove_last_word(addon_name) ==
    LET parts == FindAll(addon_name)
    IN  IF parts = << >> THEN << >>
        ELSE Join(SubSeq(parts, 1, Len(parts) - 1), << >>)

\* the set literal of _search_request
search_terms(addon_name) ==
    { addon_name, split_by_camel_case(addon_name), remove_last_word(addon_name) }

\* ------------------------------------------------------------------ values
\* one-character decimal digits, by value + 1
DigitChars == << "0", "1", "2", "3", "4", "5", "6", "7", "8", "9" >>

DigitVal(c) == CHOOSE d \in 0..9 : DigitChars[d + 1] = c

\* int(s) of a string: None stands for ValueError
RECURSIVE ParseInt(_)
ParseInt(s) ==
    IF s = << >> \/ \E i \in 1..Len(s) : s[i] \notin Digit THEN None
    ELSE IF Len(s) = 1 THEN Some(DigitVal(s[1]))
    ELSE Some(10 * ParseInt(SubSeq(s, 1, Len(s) - 1))[1] + DigitVal(s[Len(s)]))

\* an epoch argument is a string (scraped attribute) or an int (decoded JSON)
StrEpoch(s) == [t |-> "str", s |-> s, n |-> 0]

IntEpoch(n) == [t |-> "int", s |-> << >>, n |-> n]

\* Python truthiness of an epoch argument
Truthy(e) == IF e.t = "str" THEN e.s # << >> ELSE e.n # 0

\* int(epoch_date)
IntOf(e) == IF e.t = "str" THEN ParseInt(e.s) ELSE Some(e.n)

\* Addon.__init__: [err |-> "" | "ValueError" | "AssertionError", addon]
NoAddon == [name |-> << >>, url |-> << >>, date |-> 0]

Addon(name, url, epoch_date) ==
    IF name = << >> \/ url = << >> \/ ~Truthy(epoch_date)
    THEN [err |-> "ValueError", addon |-> NoAddon]
    ELSE IF convert_addon_name(name) = << >>
    THEN [err |-> "AssertionError", addon |-> NoAddon]
    ELSE IF IntOf(epoch_date) = None
    THEN [err |-> "ValueError", addon |-> NoAddon]
    ELSE [err |-> "",
          addon |-> [name |-> convert_addon_name(name), url |-> url,
                     date |-> IntOf(epoch_date)[1]]]

\* Addon.to_json
to_json(addon) == [name |-> addon.name, url |-> addon.url, date |-> addon.date]

\* JsonAddon.__init__ on a present dictionary
JsonAddon(json_dict) == Addon(json_dict.name, json_dict.url, IntEpoch(json_dict.date))

\* ------------------------------------------------------------------ Config
\* a dict as a function on its key set
EmptyDict == [k \in {} |-> k]

DictPut(d, k, v) == [x \in DOMAIN d \cup {k} |-> IF x = k THEN v ELSE d[x]]

\* Config._default
DefaultConfig == [PATH |-> "", addons |-> EmptyDict]

\* Config.get_addon: None when the key is absent or the record is invalid
get_addon(config_dict, name) ==
    IF name \notin DOMAIN config_dict.addons THEN None
    ELSE IF JsonAddon(config_dict.addons[name]).err # "" THEN None
    ELSE Some(JsonAddon(config_dict.addons[name]).addon)

\* an upsert that files the record under its url instead of its name
update_addon_mut_key_by_url(config_dict, addon) ==
    [config_dict EXCEPT !.addons = DictPut(@, addon.url, to_json(addon))]

\* Config.update_addon, the dictionary it leaves (and encodes)
update_addon(config_dict, addon) ==
    [config_dict EXCEPT !.addons = DictPut(@, addon.name, to_json(addon))]

\* Config.update_directory, the dictionary it leaves
update_directory(config_dict, directory) ==
    IF directory # "" THEN [config_dict EXCEPT !.PATH = directory] ELSE config_dict

\* the policy with the comparison of line 390 inverted
update_required_mut_not_equal(installed_addon, online_date, creation_date) ==
    IF installed_addon = None \/ installed_addon[1].date # online_date THEN TRUE
    ELSE IF creation_date < online_date THEN TRUE
    ELSE FALSE

\* Downloader._update_required, lines 390-394, on its three inputs
update_required(installed_addon, online_date, creation_date) ==
    IF installed_addon = None \/ installed_addon[1].date = online_date THEN TRUE
    ELSE IF creation_date < online_date THEN TRUE
    ELSE FALSE

\* ----------------------------------------------------------- the catalogue
\* folder names found in the addon directory
LocalNames ==
    { << "S", "a", "C", "o" >>,      \* SaCo : terms "SaCo", "Sa Co", "Sa"
      << "C", "S", "o" >>,           \* CSo  : terms "CSo", "So", ""
      << "a", "o" >> }               \* ao   : terms "ao", ""

\* text of the first link of a result row
LinkTexts == { << "S", "a", " ", "C", "o" >>, << "-" >> }

\* href of the first link, as path segments
Hrefs == { << "ws-addons", "wildstar", "sa" >> }

\* data-epoch attribute values: a number up to MaxDate, empty, or not a number
EpochAttrs == { << DigitChars[d + 1] >> : d \in 0..MaxDate } \cup { << >>, << "o" >> }

\* what http_request returns for a search: None (timeout or request error), or
\* a page: the "no results" page, a page with no result link, or a result row
SearchPages ==
    { [kind |-> "noresults", text |-> << >>, href |-> None],
      [kind |-> "norow", text |-> << >>, href |-> None] }
    \cup { [kind |-> "row", text |-> t, href |-> h] :
             t \in LinkTexts, h \in {None} \cup { Some(x) : x \in Hrefs } }

SearchResponses == {None} \cup { Some(pg) : pg \in SearchPages }

\* what http_request returns for a detail page: None, or a page without the
\* 'Last Released File' item, with the item but no abbr, or with an abbr whose
\* data-epoch attribute is absent (None) or present
DetailPages ==
    { [kind |-> "nomarker", epoch |-> None], [kind |-> "noabbr", epoch |-> None] }
    \cup { [kind |-> "abbr", epoch |-> e] :
             e \in {None} \cup { Some(x) : x \in EpochAttrs } }

DetailResponses == {None} \cup { Some(pg) : pg \in DetailPages }

\* the answers to the detail request that follows a search response: the
\* detail page is requested only for a result row whose link has a target
DetailFor(resp) ==
    IF resp # None /\ resp[1].kind = "row" /\ resp[1].href # None
    THEN DetailResponses
    ELSE {None}

\* ------------------------------------------------------------- AddonSearch
\* AddonSearch._remove_page: url.replace('/wildstar/', '/')
remove_page(url) == SelectSeq(url, LAMBDA seg : seg # "wildstar")

\* AddonSearch._make_full_url_from: urljoin(BASE_URL_CURSEFORGE, ...)
make_full_url_from(partial_url) ==
    << "http://wildstar.curseforge.com/" >> \o remove_page(partial_url)

\* AddonSearch._results_found_on: a missing page raises AttributeError, which
\* the method catches and answers True
results_found_on(page) ==
    IF page = None THEN TRUE ELSE page[1].kind # "noresults"

\* AddonSearch._search_request with the first non-empty term of the set's
\* iteration order and the response to its request: the loop returns in its
\* first iteration with a non-empty term
search_request(term, resp) ==
    IF results_found_on(resp)
    THEN [page |-> resp, marked |-> FALSE]
    ELSE [page |-> None, marked |-> TRUE]

\* AddonSearch._find_addon_date: [crash, date]; date is None or Some(string)
find_addon_date(det) ==
    IF det = None THEN [crash |-> FALSE, date |-> None]
    ELSE IF det[1].kind = "nomarker" THEN [crash |-> FALSE, date |-> None]
    ELSE IF det[1].kind = "noabbr" THEN [crash |-> TRUE, date |-> None]
    ELSE [crash |-> FALSE, date |-> det[1].epoch]

\* AddonSearch._find_addon_info_on: [crash, name, url, date, asked]; asked says
\* whether the detail page was requested
find_addon_info_on(page, det) ==
    IF page.kind # "row"
    THEN [crash |-> FALSE, name |-> << >>, url |-> << >>, date |-> None,
          asked |-> FALSE]
    ELSE IF page.href = None
    THEN [crash |-> TRUE, name |-> convert_addon_name(page.text), url |-> << >>,
          date |-> None, asked |-> FALSE]
    ELSE [crash |-> find_addon_date(det).crash,
          name |-> convert_addon_name(page.text),
          url |-> make_full_url_from(page.href[1]),
          date |-> find_addon_date(det).date,
          asked |-> TRUE]

\* the outcome of a find call: the value returned (None or Some(addon)),
\* whether an exception left the call, the two caches, whether a warning was
\* put, and the requests issued (ok: http_request returned a response)
FindResult(result, crashed, neg, retr, warned, log) ==
    [result |-> result, crashed |-> crashed, neg |-> neg, retr |-> retr,
     warned |-> warned, log |-> log]

\* AddonSearch._search_online
search_online(addon_name, neg, retr, term, resp, det) ==
    LET sr == search_request(term, resp)
        neg1 == IF sr.marked THEN neg \cup {addon_name} ELSE neg
        log1 == << [kind |-> "search", arg |-> term, ok |-> resp # None] >>
        failed(lg) == FindResult(None, FALSE, neg1 \cup {addon_name}, retr, TRUE, lg)
    IN  IF sr.page = None THEN failed(log1)
        ELSE LET info == find_addon_info_on(sr.page[1], det)
                 log2 == IF info.asked
                         THEN log1 \o << [kind |-> "detail", arg |-> info.url,
                                           ok |-> det # None] >>
                         ELSE log1
             IN  IF info.crash THEN FindResult(None, TRUE, neg1, retr, FALSE, log2)
                 ELSE IF info.name # << >> /\ info.url # << >>
                         /\ info.date # None /\ info.date[1] # << >>
                 THEN LET a == Addon(info.name, info.url, StrEpoch(info.date[1]))
                      IN  IF a.err # ""
                          THEN FindResult(None, TRUE, neg1, retr, FALSE, log2)
                          ELSE FindResult(Some(a.addon), FALSE, neg1,
                                          DictPut(retr, info.name, a.addon),
                                          FALSE, log2)
                 ELSE failed(log2)

\* find without the test of line 252
find_mut_no_negative_cache(addon_name, neg, retr, term, resp, det) ==
    IF addon_name \in DOMAIN retr
    THEN FindResult(Some(retr[addon_name]), FALSE, neg, retr, FALSE, << >>)
    ELSE search_online(addon_name, neg, retr, term, resp, det)

\* AddonSearch.find
find(addon_name, neg, retr, term, resp, det) ==
    IF addon_name \in neg
    THEN FindResult(None, FALSE, neg, retr, FALSE, << >>)
    ELSE IF addon_name \in DOMAIN retr
    THEN FindResult(Some(retr[addon_name]), FALSE, neg, retr, FALSE, << >>)
    ELSE search_online(addon_name, neg, retr, term, resp, det)

\* ------------------------------------------------------------------- state
VARIABLES
    addons,             \* AddonSearch._addons, the names the run was given
    s_pc,               \* position of the Search worker (thread1)
    s_i,                \* index of the name AddonSearch.run is at
    s_found,            \* online_addon, the value find returned
    no_results_found,   \* AddonSearch._no_results_found (its keys)
    retrieved_addons,   \* AddonSearch._retrieved_addons
    net_log,            \* requests issued by the find call that just returned
    task_queue,         \* MultiQueue._task_queue
    message_queue,      \* MultiQueue._message_queue
    warning_queue,      \* MultiQueue._warning_queue
    d_pc,               \* position of the Install worker (thread2)
    d_task,             \* the task Downloader.run holds
    d_config,           \* Downloader._config._config_dict
    file,               \* the document in config.json
    c_pc,               \* position of the caller (the Tk event loop)
    gui_config,         \* DownloaderInterface._config._config_dict
    directory,          \* DownloaderInterface._directory
    button,             \* state of the Update button
    runs,               \* how many runs were started
    dir_changes,        \* how many times the folder dialog was opened
    listed,             \* how many folder names the runs were given so far
    ctime,              \* st_ctime of each addon folder
    hist,               \* this run's enqueued tasks, upserted addons, failures
    policy              \* a call of the update policy on its own

vars ==
    << addons, s_pc, s_i, s_found, no_results_found, retrieved_addons, net_log,
       task_queue, message_queue, warning_queue, d_pc, d_task, d_config, file,
       c_pc, gui_config, directory, button, runs, dir_changes, listed, ctime,
       hist, policy >>

search_vars ==
    << addons, s_pc, s_i, s_found, no_results_found, retrieved_addons, net_log >>

download_vars == << d_pc, d_task, d_config >>

caller_vars ==
    << c_pc, gui_config, directory, button, runs, dir_changes, listed >>

\* Message(msg=...) payloads
Msg(kind, name) == [kind |-> kind, name |-> name]

\* Message(current_addon=..., online_addon=...)
Task(current_addon, online_addon) ==
    [current_addon |-> current_addon, online_addon |-> online_addon]

NoTask == Task(<< >>, NoAddon)

\* threading.Thread.is_alive
SearchAlive == s_pc \in {"start", "loop", "find", "put"}

DownloaderAlive == d_pc \in {"check", "get", "msg", "extract", "update"}

\* sequences without repetition, as os.listdir returns them
RECURSIVE SeqsUpTo(_, _)
SeqsUpTo(S, n) ==
    IF n = 0 THEN { << >> }
    ELSE SeqsUpTo(S, n - 1)
         \cup { Append(q, x) : q \in { r \in SeqsUpTo(S, n - 1) : Len(r) = n - 1 },
                               x \in S }

Distinct(q) == \A i, j \in 1..Len(q) : i # j => q[i] # q[j]

\* the folders of the addon directory
Folders == { << "S", "a", "C", "o" >>, << "a", "o" >> }

Listings == { q \in SeqsUpTo(Folders, MaxAddons) : Distinct(q) }

\* the directories the folder dialog can answer
Dirs == {"d2"}

Dates == 1..MaxDate

IdlePolicy ==
    [pc |-> "idle", config |-> DefaultConfig, name |-> << >>, online |-> 0,
     created |-> 0, result |-> FALSE]

\* the url of a record stored by an earlier install
StoredUrl == make_full_url_from(CHOOSE h \in Hrefs : TRUE)

\* the document config.json holds when the program starts: a directory and a
\* record for one of the two folders, dated after every catalogue entry
InitialFiles ==
    { [PATH |-> "d1",
       addons |-> DictPut(EmptyDict, n,
                          [name |-> n, url |-> StoredUrl, date |-> MaxDate + 1])] :
        n \in { << "S", "a", "C", "o" >> } }

\* --------------------------------------------------- AddonSearch.run steps
\* line 236: put_message(SEARCH_START)
SearchStart ==
    /\ s_pc = "start"
    /\ message_queue' = Append(message_queue, Msg("search_start", << >>))
    /\ s_pc' = "loop"
    /\ UNCHANGED << addons, s_i, s_found, no_results_found, retrieved_addons, net_log,
                    task_queue, warning_queue, download_vars, file, caller_vars,
                    ctime, hist, policy >>

\* lines 237-239: the loop head and put_message("Searching for ...")
SearchLoop ==
    /\ s_pc = "loop"
    /\ IF s_i <= Len(addons)
       THEN /\ message_queue' = Append(message_queue, Msg("searching", addons[s_i]))
            /\ s_pc' = "find"
       ELSE /\ s_pc' = "done"
            /\ UNCHANGED message_queue
    /\ net_log' = << >>
    /\ UNCHANGED << addons, s_i, s_found, no_results_found, retrieved_addons,
                    task_queue, warning_queue, download_vars, file, caller_vars,
                    ctime, hist, policy >>

\* lines 240-241: online_addon = self.find(addon); an exception ends the thread
SearchFind ==
    /\ s_pc = "find"
    /\ \E term \in search_terms(addons[s_i]) \ { << >> },
          resp \in SearchResponses :
       \E det \in DetailFor(resp) :
         LET r == find(addons[s_i], no_results_found, retrieved_addons, term, resp, det)
         IN  /\ no_results_found' = r.neg
             /\ retrieved_addons' = r.retr
             /\ net_log' = r.log
             /\ warning_queue' =
                  IF r.warned
                  THEN Append(warning_queue, Msg("unable_to_find", addons[s_i]))
                  ELSE warning_queue
             /\ IF r.crashed
                THEN /\ s_pc' = "crashed"
                     /\ UNCHANGED << s_i, s_found >>
                ELSE IF r.result # None
                THEN /\ s_pc' = "put"
                     /\ s_found' = r.result
                     /\ UNCHANGED s_i
                ELSE /\ s_pc' = "loop"
                     /\ s_found' = None
                     /\ s_i' = s_i + 1
    /\ UNCHANGED << addons, task_queue, message_queue, download_vars, file,
                    caller_vars, ctime, hist, policy >>

\* lines 242-243: put_task(Message(current_addon, online_addon))
SearchPutTask ==
    /\ s_pc = "put"
    /\ task_queue' = Append(task_queue, Task(addons[s_i], s_found[1]))
    /\ hist' = [hist EXCEPT !.enqueued = Append(@, Task(addons[s_i], s_found[1]))]
    /\ s_i' = s_i + 1
    /\ s_found' = None
    /\ net_log' = << >>
    /\ s_pc' = "loop"
    /\ UNCHANGED << addons, no_results_found, retrieved_addons,
                    message_queue, warning_queue, download_vars, file, caller_vars,
                    ctime, policy >>

\* ---------------------------------------------------- Downloader.run steps
\* a worker that goes for the next task without looking at the queue
DownloaderCheck_mut_no_check ==
    /\ d_pc = "check"
    /\ d_pc' = "get"
    /\ UNCHANGED << search_vars, task_queue, message_queue, warning_queue, d_task,
                    d_config, file, caller_vars, ctime, hist, policy >>

\* line 363: while self._queue.task_available()
DownloaderCheck ==
    /\ d_pc = "check"
    /\ d_pc' = IF Len(task_queue) > 0 THEN "get" ELSE "done"
    /\ UNCHANGED << search_vars, task_queue, message_queue, warning_queue, d_task,
                    d_config, file, caller_vars, ctime, hist, policy >>

\* a get_task that takes the newest task instead of the oldest
DownloaderGet_mut_lifo ==
    /\ d_pc = "get"
    /\ Len(task_queue) > 0
    /\ d_task' = task_queue[Len(task_queue)]
    /\ task_queue' = SubSeq(task_queue, 1, Len(task_queue) - 1)
    /\ d_pc' = "msg"
    /\ UNCHANGED << search_vars, message_queue, warning_queue, d_config, file,
                    caller_vars, ctime, hist, policy >>

\* lines 365-367: task = get_task(), a blocking Queue.get
DownloaderGet ==
    /\ d_pc = "get"
    /\ Len(task_queue) > 0
    /\ d_task' = Head(task_queue)
    /\ task_queue' = Tail(task_queue)
    /\ d_pc' = "msg"
    /\ UNCHANGED << search_vars, message_queue, warning_queue, d_config, file,
                    caller_vars, ctime, hist, policy >>

\* lines 369-371: put_message("Downloading ...")
DownloaderMessage ==
    /\ d_pc = "msg"
    /\ message_queue' = Append(message_queue, Msg("downloading", d_task.online_addon.name))
    /\ d_pc' = "extract"
    /\ UNCHANGED << search_vars, task_queue, warning_queue, d_task, d_config, file,
                    caller_vars, ctime, hist, policy >>

\* what the download and the extraction of one archive can do
ExtractOutcomes == {"ok", "request_failed", "bad_zip"}

\* Downloader._extract_zipfile: "returned" or the exception that leaves it.
\* A failed request gives response = None and response.content raises
\* AttributeError; a malformed archive raises zipfile.BadZipFile.  Matching
\* either against `except (TypeError, BadZipFile)` evaluates the name
\* BadZipFile, which the module never binds (it imports BadZipfile), so a
\* NameError leaves the method.
extract_zipfile(outcome) ==
    IF outcome = "ok" THEN "returned" ELSE "NameError"

\* line 372, and line 374: `except queue.Empty` does not catch the NameError
DownloaderExtract ==
    /\ d_pc = "extract"
    /\ \E outcome \in ExtractOutcomes :
         IF extract_zipfile(outcome) = "returned"
         THEN /\ d_pc' = "update"
              /\ UNCHANGED hist
         ELSE /\ d_pc' = "crashed"
              /\ hist' = [hist EXCEPT !.failed = TRUE]
    /\ UNCHANGED << search_vars, task_queue, message_queue, warning_queue, d_task,
                    d_config, file, caller_vars, ctime, policy >>

\* line 373: self._config.update_addon(online_addon), which encodes the file
DownloaderUpdate ==
    /\ d_pc = "update"
    /\ d_config' = update_addon(d_config, d_task.online_addon)
    /\ file' = d_config'
    /\ hist' = [hist EXCEPT !.installed = Append(@, d_task.online_addon)]
    /\ d_task' = NoTask
    /\ d_pc' = "check"
    /\ UNCHANGED << search_vars, task_queue, message_queue, warning_queue,
                    caller_vars, ctime, policy >>

\* ------------------------------------------------ DownloaderInterface steps
\* carried: the tasks an earlier run left on the task queue
NewHist ==
    [enqueued |-> << >>, installed |-> << >>, failed |-> FALSE, carried |-> << >>]

\* start_thread up to thread1.start(); periodic_call() follows in the handler
StartThread ==
    /\ c_pc = "idle"
    /\ button = "active"
    /\ directory # ""
    /\ runs < MaxRuns
    /\ runs' = runs + 1
    /\ button' = "disabled"
    /\ \E listing \in Listings :
         /\ listed + Len(listing) <= MaxAddons
         /\ addons' = listing
         /\ listed' = listed + Len(listing)
    /\ s_pc' = "start"
    /\ s_i' = 1
    /\ s_found' = None
    /\ no_results_found' = {}
    /\ retrieved_addons' = EmptyDict
    /\ net_log' = << >>
    /\ d_pc' = "new"
    /\ d_task' = NoTask
    /\ d_config' = file
    /\ hist' = [NewHist EXCEPT !.carried = task_queue]
    /\ c_pc' = "check_download"
    /\ UNCHANGED << task_queue, message_queue, warning_queue, file, gui_config,
                    directory, dir_changes, ctime, policy >>

\* _check_download_queue, line 460 left operand: self.queue.task_available()
CheckDownloadQueue ==
    /\ c_pc = "check_download"
    /\ c_pc' = IF Len(task_queue) > 0 THEN "check_thread2" ELSE "check_message"
    /\ UNCHANGED << search_vars, task_queue, message_queue, warning_queue,
                    download_vars, file, gui_config, directory, button, runs,
                    dir_changes, listed, ctime, hist, policy >>

\* _check_download_queue, lines 460-462: not self.thread2.is_alive(), then a
\* new Downloader (whose Config decodes the file) is started
StartDownloader ==
    /\ c_pc = "check_thread2"
    /\ IF DownloaderAlive
       THEN UNCHANGED download_vars
       ELSE /\ d_pc' = "check"
            /\ d_task' = NoTask
            /\ d_config' = file
    /\ c_pc' = "check_message"
    /\ UNCHANGED << search_vars, task_queue, message_queue, warning_queue, file,
                    gui_config, directory, button, runs, dir_changes, listed, ctime,
                    hist, policy >>

\* _check_message_queue: the loop ends when it finds the queue empty
CheckMessageQueue ==
    /\ c_pc = "check_message"
    /\ message_queue' = << >>
    /\ c_pc' = "alive1"
    /\ UNCHANGED << search_vars, task_queue, warning_queue, download_vars, file,
                    gui_config, directory, button, runs, dir_changes, listed, ctime,
                    hist, policy >>

\* a tick that finds the Search worker alive and schedules no further tick
CheckThread1_mut_no_reschedule ==
    /\ c_pc = "alive1"
    /\ c_pc' = IF SearchAlive THEN "idle" ELSE "alive2"
    /\ UNCHANGED << search_vars, task_queue, message_queue, warning_queue,
                    download_vars, file, gui_config, directory, button, runs,
                    dir_changes, listed, ctime, hist, policy >>

\* line 449, left operand: self.thread1.is_alive()
CheckThread1 ==
    /\ c_pc = "alive1"
    /\ c_pc' = IF SearchAlive THEN "waiting" ELSE "alive2"
    /\ UNCHANGED << search_vars, task_queue, message_queue, warning_queue,
                    download_vars, file, gui_config, directory, button, runs,
                    dir_changes, listed, ctime, hist, policy >>

\* a completion test that does not read thread2.is_alive()
CheckThread2_mut_ignores_thread2 ==
    /\ c_pc = "alive2"
    /\ c_pc' = "complete"
    /\ UNCHANGED << search_vars, task_queue, message_queue, warning_queue,
                    download_vars, file, gui_config, directory, button, runs,
                    dir_changes, listed, ctime, hist, policy >>

\* line 449, right operand: self.thread2.is_alive(); line 451 is then true
CheckThread2 ==
    /\ c_pc = "alive2"
    /\ c_pc' = IF DownloaderAlive THEN "waiting" ELSE "complete"
    /\ UNCHANGED << search_vars, task_queue, message_queue, warning_queue,
                    download_vars, file, gui_config, directory, button, runs,
                    dir_changes, listed, ctime, hist, policy >>

\* lines 452-457: the run is declared complete and the warnings are shown
Complete ==
    /\ c_pc = "complete"
    /\ button' = "active"
    /\ warning_queue' = << >>
    /\ c_pc' = "idle"
    /\ UNCHANGED << search_vars, task_queue, message_queue, download_vars, file,
                    gui_config, directory, runs, dir_changes, listed, ctime, hist,
                    policy >>

\* line 450: self.after(100, self.periodic_call) fires
PeriodicCall ==
    /\ c_pc = "waiting"
    /\ c_pc' = "check_download"
    /\ UNCHANGED << search_vars, task_queue, message_queue, warning_queue,
                    download_vars, file, gui_config, directory, button, runs,
                    dir_changes, listed, ctime, hist, policy >>

\* get_directory: the dialog answers a directory, or '' when cancelled
GetDirectory ==
    /\ c_pc \in {"idle", "waiting"}
    /\ dir_changes < MaxDirChanges
    /\ dir_changes' = dir_changes + 1
    /\ \E d \in Dirs \cup {""} :
         /\ directory' = d
         /\ gui_config' = update_directory(gui_config, d)
         /\ file' = IF d # "" THEN gui_config' ELSE file
    /\ UNCHANGED << search_vars, task_queue, message_queue, warning_queue,
                    download_vars, c_pc, button, runs, listed, ctime, hist, policy >>

\* ---------------------------------------------------------- specifications
\* the program after DownloaderInterface() was constructed
Init ==
    /\ file \in InitialFiles
    /\ gui_config = file
    /\ directory = file.PATH
    /\ button = "active"
    /\ runs = 0
    /\ dir_changes = 0
    /\ listed = 0
    /\ c_pc = "idle"
    /\ addons = << >>
    /\ s_pc = "none"
    /\ s_i = 1
    /\ s_found = None
    /\ no_results_found = {}
    /\ retrieved_addons = EmptyDict
    /\ net_log = << >>
    /\ task_queue = << >>
    /\ message_queue = << >>
    /\ warning_queue = << >>
    /\ d_pc = "none"
    /\ d_task = NoTask
    /\ d_config = DefaultConfig
    /\ \E c \in Dates : ctime = [n \in LocalNames |-> c]
    /\ hist = NewHist
    /\ policy = IdlePolicy

SearchNext == SearchStart \/ SearchLoop \/ SearchFind \/ SearchPutTask

DownloaderNext ==
    DownloaderCheck \/ DownloaderGet \/ DownloaderMessage \/ DownloaderExtract
        \/ DownloaderUpdate

CallerNext ==
    StartThread \/ CheckDownloadQueue \/ StartDownloader \/ CheckMessageQueue
        \/ CheckThread1 \/ CheckThread2 \/ Complete \/ PeriodicCall \/ GetDirectory

Next == SearchNext \/ DownloaderNext \/ CallerNext

Spec == Init /\ [][Next]_vars

\* the steps of periodic_call, which Tk runs once scheduled
Tick ==
    CheckDownloadQueue \/ StartDownloader \/ CheckMessageQueue \/ CheckThread1
        \/ CheckThread2 \/ Complete \/ PeriodicCall

\* the program after a first run over an empty addon folder was declared
\* complete: both threads of that run exist and are not alive
AfterEmptyRun ==
    /\ file \in InitialFiles
    /\ gui_config = file
    /\ directory = file.PATH
    /\ button = "active"
    /\ runs = 1
    /\ dir_changes = 0
    /\ listed = 0
    /\ c_pc = "idle"
    /\ addons = << >>
    /\ s_pc = "done"
    /\ s_i = 1
    /\ s_found = None
    /\ no_results_found = {}
    /\ retrieved_addons = EmptyDict
    /\ net_log = << >>
    /\ task_queue = << >>
    /\ message_queue = << >>
    /\ warning_queue = << >>
    /\ d_pc = "new"
    /\ d_task = NoTask
    /\ d_config = file
    /\ \E c \in Dates : ctime = [n \in LocalNames |-> c]
    /\ hist = NewHist
    /\ policy = IdlePolicy

\* a run with its threads scheduled and its timer firing: each worker thread
\* keeps running while it can, every request returns, and a scheduled
\* periodic_call is run; pressing a button is never forced
FairSpec ==
    /\ AfterEmptyRun
    /\ [][Next]_vars
    /\ WF_vars(SearchNext)
    /\ WF_vars(DownloaderNext)
    /\ WF_vars(Tick)

\* ------------------------------------------- a resolver used on its own
\* lists of names with repetitions, as a caller of AddonSearch may pass them
RECURSIVE NameLists(_)
NameLists(n) ==
    IF n = 0 THEN { << >> }
    ELSE NameLists(n - 1)
         \cup { Append(q, x) : q \in { r \in NameLists(n - 1) : Len(r) = n - 1 },
                               x \in LocalNames }

\* AddonSearch(addons, queue).run() on a fresh MultiQueue, nothing else running
ResolverInit ==
    /\ addons \in NameLists(MaxFinds) \ { << >> }
    /\ s_pc = "start"
    /\ s_i = 1
    /\ s_found = None
    /\ no_results_found = {}
    /\ retrieved_addons = EmptyDict
    /\ net_log = << >>
    /\ task_queue = << >>
    /\ message_queue = << >>
    /\ warning_queue = << >>
    /\ d_pc = "none"
    /\ d_task = NoTask
    /\ d_config = DefaultConfig
    /\ file = DefaultConfig
    /\ gui_config = DefaultConfig
    /\ directory = ""
    /\ button = "active"
    /\ runs = 0
    /\ dir_changes = 0
    /\ listed = 0
    /\ c_pc = "idle"
    /\ ctime = [n \in LocalNames |-> 1]
    /\ hist = NewHist
    /\ policy = IdlePolicy

ResolverSpec == ResolverInit /\ [][SearchNext]_vars

\* --------------------------------------------- the update policy on its own
PolicyDates == 0..(MaxDate + 2)

\* stores with no record, or one record for the first folder
PolicyConfigs ==
    { DefaultConfig }
    \cup { [PATH |-> "d1",
            addons |-> DictPut(EmptyDict, n, [name |-> n, url |-> StoredUrl, date |-> d])] :
             n \in { << "S", "a", "C", "o" >> }, d \in PolicyDates }

PolicyInit ==
    /\ policy \in [pc : {"call"}, config : PolicyConfigs, name : Folders,
                   online : PolicyDates \ {0}, created : PolicyDates,
                   result : {FALSE}]
    /\ addons = << >>
    /\ s_pc = "none"
    /\ s_i = 1
    /\ s_found = None
    /\ no_results_found = {}
    /\ retrieved_addons = EmptyDict
    /\ net_log = << >>
    /\ task_queue = << >>
    /\ message_queue = << >>
    /\ warning_queue = << >>
    /\ d_pc = "none"
    /\ d_task = NoTask
    /\ d_config = DefaultConfig
    /\ file = DefaultConfig
    /\ gui_config = DefaultConfig
    /\ directory = ""
    /\ button = "active"
    /\ runs = 0
    /\ dir_changes = 0
    /\ listed = 0
    /\ c_pc = "idle"
    /\ ctime = [n \in LocalNames |-> 1]
    /\ hist = NewHist

\* Downloader._update_required with installed_addon from Config.get_addon and
\* the online date and the folder's creation date given
UpdateRequiredCall ==
    /\ policy.pc = "call"
    /\ policy' = [policy EXCEPT
                    !.pc = "returned",
                    !.result = update_required(get_addon(policy.config, policy.name),
                                               policy.online, policy.created)]
    /\ UNCHANGED << search_vars, task_queue, message_queue, warning_queue,
                    download_vars, file, caller_vars, ctime, hist >>

PolicySpec == PolicyInit /\ [][UpdateRequiredCall]_vars

\* ============================================================== properties
\* C1: whenever periodic_call declares a run complete, the Search worker has
\* finished, no Install worker is alive and the task queue is empty.
C1_CompleteMeansAllDone ==
    c_pc = "complete" =>
        /\ ~SearchAlive
        /\ ~DownloaderAlive
        /\ task_queue = << >>

\* C2: when a run in which no install failed is declared complete, the task
\* queue is empty and every task the run enqueued was upserted into the store.
C2_AllEnqueuedUpserted ==
    (c_pc = "complete" /\ ~hist.failed) =>
        /\ task_queue = << >>
        /\ Len(hist.installed) = Len(hist.enqueued)

\* C3: the Search worker puts a task for a name only if find succeeded for it
\* and the update policy, on the stored record, the remote date and the
\* folder's creation date, answers true.
C3_EnqueuedOnlyIfPolicyApproves ==
    [][ (s_pc = "put" /\ s_pc' = "loop") =>
           /\ s_found # None
           /\ update_required(get_addon(file, addons[s_i]), s_found[1].date,
                              ctime[addons[s_i]]) ]_vars

C5_NegativeCacheNoRequest ==
    [][ (s_pc = "find" /\ addons[s_i] \in no_results_found) =>
           /\ s_pc' = "loop"
           /\ s_found' = None
           /\ net_log' = << >>
           /\ task_queue' = task_queue ]_vars

\* find has just returned None without a request for a name that an earlier
\* call on the same resolver put in the negative cache
C5_Witness ==
    /\ s_pc = "loop"
    /\ s_i > 2
    /\ addons[s_i - 1] \in no_results_found
    /\ \E j \in 1..(s_i - 2) : addons[j] = addons[s_i - 1]
    /\ net_log = << >>
    /\ s_found = None

\* the name find is called with has no entry in either cache
Uncached == addons[s_i] \notin no_results_found /\ addons[s_i] \notin DOMAIN retrieved_addons

\* the derived search terms of a name in the priority raw name, camel-case
\* split, split without the last fragment; empty and repeated terms left out
Priority(name) ==
    LET all == << name, split_by_camel_case(name), remove_last_word(name) >>
        keep(i) == all[i] # << >> /\ \A j \in 1..(i - 1) : all[j] # all[i]
        F[i \in 0..3] ==
            IF i = 0 THEN << >>
            ELSE IF keep(i) THEN Append(F[i - 1], all[i]) ELSE F[i - 1]
    IN  F[3]

\* the terms of the search requests in a request log, in order
SearchedTerms(log) ==
    LET F[i \in 0..Len(log)] ==
            IF i = 0 THEN << >>
            ELSE IF log[i].kind = "search" THEN Append(F[i - 1], log[i].arg)
            ELSE F[i - 1]
    IN  F[Len(log)]

IsPrefix(p, q) == Len(p) <= Len(q) /\ SubSeq(q, 1, Len(p)) = p

\* C6: once find succeeded for a name, every later find for that name returns
\* the entry of the first success from the cache, without a request.
C6_LaterFindUsesCache ==
    [][ (s_pc = "find"
           /\ \E k \in 1..Len(hist.enqueued) :
                hist.enqueued[k].current_addon = addons[s_i]) =>
           LET first == CHOOSE k \in 1..Len(hist.enqueued) :
                          /\ hist.enqueued[k].current_addon = addons[s_i]
                          /\ \A j \in 1..(k - 1) :
                               hist.enqueued[j].current_addon # addons[s_i]
           IN  /\ net_log' = << >>
               /\ s_pc' = "put"
               /\ s_found' = Some(hist.enqueued[first].online_addon) ]_vars

\* C7: network resolution requests the derived terms in the priority raw name,
\* camel-case split, split without the last fragment, and answers NotFound
\* only after every one of them was tried.
C7_TermsTriedInPriority ==
    [][ (s_pc = "find" /\ Uncached) =>
           /\ SearchedTerms(net_log') # << >>
           /\ IsPrefix(SearchedTerms(net_log'), Priority(addons[s_i]))
           /\ s_pc' = "loop" =>
                SearchedTerms(net_log') = Priority(addons[s_i]) ]_vars

\* C8: when the request for one term fails, the other terms of the same find
\* call are still requested, so the name enters the negative cache only after
\* all its terms were tried.
C8_TimeoutTriesOtherTerms ==
    [][ (s_pc = "find" /\ Uncached
           /\ \E i \in 1..Len(net_log') :
                net_log'[i].kind = "search" /\ ~net_log'[i].ok) =>
           { SearchedTerms(net_log')[i] : i \in 1..Len(SearchedTerms(net_log')) }
              = search_terms(addons[s_i]) \ { << >> } ]_vars

\* C9: when network resolution of a name yields no usable entry, find returns
\* None, the name is in the negative cache, exactly one warning naming it is
\* put on the warning queue, and no task is enqueued for it.
C9_NotFoundWarnsOnce ==
    [][ (s_pc = "find" /\ Uncached /\ s_pc' # "put") =>
           /\ s_pc' = "loop"
           /\ s_found' = None
           /\ addons[s_i] \in no_results_found'
           /\ warning_queue' = Append(warning_queue, Msg("unable_to_find", addons[s_i]))
           /\ task_queue' = task_queue ]_vars

\* C10: the Install worker upserts only after the download and extraction
\* succeeded; a failed install returns to the worker's loop and leaves the
\* store as it was.
C10_FailedInstallReturns ==
    [][ /\ Len(hist.installed') > Len(hist.installed) => d_pc = "update"
        /\ (d_pc = "extract" /\ d_pc' \notin {"extract", "update"}) =>
              /\ d_pc' = "check"
              /\ file' = file
              /\ d_config' = d_config ]_vars

\* C11: a failed install only skips its own task: the Install worker does not
\* end on an exception, so after a failure it is either still running or has
\* ended at a check that found the task queue empty.
C11_FailureSkipsOneItem ==
    hist.failed => (DownloaderAlive \/ d_pc = "done")

\* the tasks this run's Install workers can meet, oldest first
Pipeline == hist.carried \o hist.enqueued

\* the remote entries of a sequence of tasks
OnlineOf(q) == [i \in 1..Len(q) |-> q[i].online_addon]

\* a is b with some elements left out, the order kept
RECURSIVE IsSubseq(_, _)
IsSubseq(a, b) ==
    IF a = << >> THEN TRUE
    ELSE IF b = << >> THEN FALSE
    ELSE IF Head(a) = Head(b) THEN IsSubseq(Tail(a), Tail(b))
    ELSE IsSubseq(a, Tail(b))

\* position of a folder name in the listing of the run
ListingPos(name) == CHOOSE i \in 1..Len(addons) : addons[i] = name

\* C12: within a run the tasks are enqueued in listing order, the task queue
\* holds the tasks not yet taken in the order they were put, the task being
\* installed is the one put just before them, and the installed entries are
\* those of the tasks taken before it, in that order (a failed one left out),
\* whether or not the Install worker was restarted in between.
C12_StrictFifo ==
    /\ \A j, k \in 1..Len(hist.enqueued) :
          j < k => /\ ListingPos(hist.enqueued[j].current_addon)
                        < ListingPos(hist.enqueued[k].current_addon)
                   /\ ListingPos(hist.enqueued[k].current_addon) < s_i
    /\ \E k \in 0..Len(Pipeline) :
          /\ task_queue = SubSeq(Pipeline, k + 1, Len(Pipeline))
          /\ IF d_pc \in {"msg", "extract", "update"}
             THEN /\ k > 0
                  /\ d_task = Pipeline[k]
                  /\ IsSubseq(hist.installed, OnlineOf(SubSeq(Pipeline, 1, k - 1)))
             ELSE IsSubseq(hist.installed, OnlineOf(SubSeq(Pipeline, 1, k)))

\* two different tasks of one listing were both installed, oldest first
C12_Witness ==
    /\ Len(hist.enqueued) = 2
    /\ hist.carried = << >>
    /\ hist.enqueued[1].online_addon # hist.enqueued[2].online_addon
    /\ hist.installed = OnlineOf(hist.enqueued)
    /\ task_queue = << >>

\* C13: the document in config.json changes only in a step of the Install
\* worker's upsert; no step of the Search worker or of the caller writes it.
C13_OnlyInstallWorkerWrites ==
    [][ file' # file => (d_pc = "update" /\ d_pc' = "check") ]_vars

\* C14: every record of the store is filed under its own normalized name; an
\* upsert writes the entry's record under that name, adds no other key and
\* changes no other record, and when the store already holds an equal record
\* the upsert leaves the store as it was.
C14_UpsertKeyedIdempotent ==
    /\ [](\A k \in DOMAIN file.addons :
            file.addons[k].name = k /\ convert_addon_name(k) = k)
    /\ [][ (d_pc = "update" /\ d_pc' = "check") =>
             LET a == d_task.online_addon
             IN  /\ DOMAIN d_config'.addons = DOMAIN d_config.addons \cup {a.name}
                 /\ \A k \in DOMAIN d_config.addons \ {a.name} :
                      d_config'.addons[k] = d_config.addons[k]
                 /\ d_config'.addons[a.name] = to_json(a)
                 /\ d_config'.PATH = d_config.PATH
                 /\ file' = d_config'
                 /\ (a.name \in DOMAIN d_config.addons
                       /\ d_config.addons[a.name] = to_json(a)) =>
                      /\ d_config' = d_config
                      /\ file = d_config => file' = file ]_vars

\* one run installed the same remote entry twice, for two folders: the store
\* holds one record for it, which replaced the older record of that name
C14_Witness ==
    /\ Len(hist.installed) = 2
    /\ hist.installed[1] = hist.installed[2]
    /\ d_pc = "check"
    /\ DOMAIN d_config.addons = { hist.installed[1].name }
    /\ d_config.addons[hist.installed[1].name] = to_json(hist.installed[1])
    /\ file = d_config

\* a record with a non-empty alphanumeric name, a url and a non-zero date
ValidRecord(r) ==
    /\ r.name # << >>
    /\ \A i \in 1..Len(r.name) : IsAlnum(r.name[i])
    /\ r.url # << >>
    /\ r.date # 0

\* C15: no Addon is constructed from an empty or non-alphanumeric name, an
\* empty url or an empty or zero timestamp, so the entry find returns and
\* every record in config.json has a valid name, a url and a non-zero date.
C15_NoInvalidRecord ==
    /\ s_found # None => ValidRecord(s_found[1])
    /\ \A k \in DOMAIN file.addons : ValidRecord(file.addons[k])

\* C16: no answer of the catalogue makes an exception leave find: the Search
\* worker never ends on an exception, whatever the result and detail pages
\* lack.
C16_SearchNeverCrashes == s_pc # "crashed"

\* C17: the Install worker is at get_task only while the task queue holds a
\* task, nothing but its get_task takes a task off the queue, and a check
\* that finds the queue empty ends the worker.
C17_NeverBlocks ==
    /\ [](d_pc = "get" => Len(task_queue) > 0)
    /\ [][ Len(task_queue') < Len(task_queue) => (d_pc = "get" /\ d_pc' = "msg") ]_vars
    /\ [][ (d_pc = "check" /\ task_queue = << >> /\ d_pc' # "check") =>
              d_pc' = "done" ]_vars

\* a worker that installed a task has ended at a check of the empty queue
C17_Witness ==
    /\ d_pc = "done"
    /\ Len(hist.installed) > 0
    /\ task_queue = << >>

\* C18: self.thread2 is given a new Downloader, by start_thread or by
\* _check_download_queue, only when the Downloader it refers to is not alive,
\* so no live worker is ever left behind and at most one is alive; and a run
\* is started only when the button is active, which it is only while no
\* worker is alive and no polling tick is pending.
C18_OneInstallWorker ==
    /\ [](button = "active" => (~SearchAlive /\ ~DownloaderAlive /\ c_pc = "idle"))
    /\ [][ runs' # runs =>
             (~SearchAlive /\ ~DownloaderAlive /\ button = "active" /\ d_pc' = "new") ]_vars
    /\ [][ (c_pc = "check_thread2" /\ c_pc' # c_pc /\ d_pc' # d_pc) =>
             (~DownloaderAlive /\ d_pc' = "check") ]_vars

\* in the second run a started Install worker is alive after an install
C18_Witness ==
    /\ runs = 2
    /\ DownloaderAlive
    /\ Len(hist.installed) > 0
    /\ c_pc = "check_thread2"

\* C19: every started run is declared complete: the Search worker ends, each
\* started Install worker ends, and periodic_call reaches its completion
\* branch, after which no tick is pending.
C19_RunCompletes ==
    /\ SearchAlive ~> ~SearchAlive
    /\ DownloaderAlive ~> ~DownloaderAlive
    /\ (button = "disabled") ~> (button = "active" /\ c_pc = "idle")

\* a run was declared complete after an install
C19_Witness ==
    /\ runs = MaxRuns
    /\ c_pc = "idle"
    /\ button = "active"
    /\ ~SearchAlive
    /\ ~DownloaderAlive
    /\ Len(hist.installed) > 0

\* C20: when periodic_call declares a run complete the message queue is
\* empty: every message the workers put during the run was taken and shown.
C20_NoMessageLost ==
    c_pc = "complete" => message_queue = << >>

\* C21: no update of config.json is lost between the two Config objects: an
\* upsert flushed by the Install worker keeps the directory the file holds,
\* and a directory change flushed by the caller keeps the records the file
\* holds.
C21_NoLostUpdate ==
    [][ /\ (d_pc = "update" /\ d_pc' = "check") => file'.PATH = file.PATH
        /\ dir_changes' # dir_changes => file'.addons = file.addons ]_vars

====
